---- MODULE Spec2Model ----
(***************************************************************************)
(* Model of the two EBS volume-migration engines of this repository:       *)
(*   engine "ebs"  : scripts/encrypt_ebs_volumes.py, one job per volume,   *)
(*   engine "inst" : scripts/encrypt_instances_volumes.py, one job per     *)
(*                   instance (all its unencrypted volumes).               *)
(* The cloud control plane (instances, volumes, snapshots) is state; each  *)
(* function or numbered step of the scripts is one action that issues its  *)
(* provider calls and waits in code order.  Every mutating call and every  *)
(* wait may return a provider error (ClientError / WaiterError); the       *)
(* auto-scaling membership query and the tag read of copy_tags may fail    *)
(* too, the other reads succeed.  calls is the log of provider calls.      *)
(***************************************************************************)
EXTENDS Naturals, Sequences, FiniteSets

VARIABLES engine, pc, confirmed, instances, volumes, snapshots,
          queue, job, jobs, loc, calls, faults

vars == <<engine, pc, confirmed, instances, volumes, snapshots,
          queue, job, jobs, loc, calls, faults>>

-----------------------------------------------------------------------------
(* Bounds of the model *)

\* number of source volumes in the region at start
MaxVols == 2
\* number of provider errors injected in one run
MaxFaults == 2

-----------------------------------------------------------------------------
(* The cloud *)

Engines == {"ebs", "inst"}

\* ec2.instances.all() enumerates in this order
InstanceOrder == <<"i1", "i2">>

Instances == {InstanceOrder[k] : k \in 1..Len(InstanceOrder)}

Zone(i) == IF i = "i1" THEN "az-a" ELSE "az-b"

Devices == <<"/dev/sda1", "/dev/sdf", "/dev/sdg", "/dev/sdh">>

TargetKey == "alias/aws/ebs"

AsgTag == <<"aws:autoscaling:groupName", "grp">>

\* what an instance can be: st its state, spot its lifecycle, asg its
\* auto-scaling membership (the provider tags every member with AsgTag),
\* stoppable FALSE when the provider answers stop with UnsupportedOperation
Profile(st, spot, asg, stoppable) ==
    [state |-> st, spot |-> spot, asg |-> asg, stoppable |-> stoppable,
     tags |-> IF asg THEN {AsgTag} ELSE {}]

Plain == Profile("running", FALSE, FALSE, TRUE)

InstanceProfiles ==
    { Plain,
      Profile("stopped", FALSE, FALSE, TRUE),
      Profile("running", TRUE,  FALSE, TRUE),
      Profile("running", FALSE, TRUE,  TRUE),
      Profile("running", FALSE, FALSE, FALSE) }

TagChoices ==
    { {},
      {<<"Name", "data">>},
      {<<"aws:cloudformation:stack-name", "stk">>, <<"team", "core">>} }

\* a source volume attached to instance i at device Devices[k]
SourceVolume(k, i, enc, tags) ==
    [encrypted |-> enc, kms |-> IF enc THEN "other-key" ELSE "none",
     state |-> "in-use", inst |-> i, device |-> Devices[k], az |-> Zone(i),
     tags |-> tags, snap |-> 0]

Range(s) == {s[k] : k \in 1..Len(s)}

Min(a, b) == IF a < b THEN a ELSE b

Cloud == [instances |-> instances, volumes |-> volumes, snapshots |-> snapshots]

-----------------------------------------------------------------------------
(* The log of provider calls *)

Ev(op, ok, i, v, s) ==
    [job |-> job, op |-> op, ok |-> ok, inst |-> i, vol |-> v, snap |-> s,
     dev |-> "none", zone |-> "none"]

IEv(op, ok, i) == Ev(op, ok, i, 0, 0)
VEv(op, ok, v) == Ev(op, ok, "none", v, 0)
SEv(op, ok, s) == Ev(op, ok, "none", 0, s)
FsrEv(op, ok, s, z) == [SEv(op, ok, s) EXCEPT !.zone = z]
AttEv(op, ok, v, i, d) == [Ev(op, ok, i, v, 0) EXCEPT !.dev = d]

MutatingOps ==
    {"stop", "snapshot", "copy", "enable_fsr", "delete", "detach",
     "create_volume", "tag", "attach", "start", "disable_fsr"}

CanFault == faults < MaxFaults

-----------------------------------------------------------------------------
(* The scanners *)

Indices(vols) == 1..Len(vols)

RECURSIVE Ascending(_)
Ascending(S) ==
    IF S = {} THEN <<>>
    ELSE LET m == CHOOSE x \in S : \A y \in S : x <= y
         IN <<m>> \o Ascending(S \ {m})

ScanCap == 4

\* what Python's None is in the names the scripts resolve
None == "None"

\* the value of the Name tag of a tag set that has one
NameTag(tags) == (CHOOSE t \in tags : t[1] = "Name")[2]

HasName(tags) == \E t \in tags : t[1] = "Name"

\* encrypt_ebs_volumes.py: no Tags key gives the sentinel, a Name tag its
\* value, and tags without a Name tag give None
ebs_get_instance_name(i) ==
    LET tags == instances[i].tags
    IN IF tags = {} THEN "Name Unknown"
       ELSE IF HasName(tags) THEN NameTag(tags) ELSE None

ebs_get_volume_name(vols, v) ==
    LET tags == vols[v].tags
    IN IF tags = {} THEN "Name Unknown"
       ELSE IF HasName(tags) THEN NameTag(tags) ELSE None

\* encrypt_instances_volumes.py: the first Name tag, else the sentinel
get_instance_name(instance) ==
    IF HasName(instance.tags) THEN NameTag(instance.tags) ELSE "Name Unknown"

get_volume_name(volume) ==
    IF HasName(volume.tags) THEN NameTag(volume.tags) ELSE "Unknown Name"

\* the scan without its Filters argument: encrypted volumes are listed too
get_unencrypted_ebs_volumes_unfiltered(vols) ==
    LET hit == {v \in Indices(vols) :
                   /\ vols[v].kms = "none"
                   /\ vols[v].state = "in-use"}
        all == [k \in 1..Cardinality(hit) |->
                   [volume_id |-> Ascending(hit)[k],
                    instance_id |-> vols[Ascending(hit)[k]].inst,
                    instance_name |->
                       ebs_get_instance_name(vols[Ascending(hit)[k]].inst),
                    volume_name |-> ebs_get_volume_name(vols, Ascending(hit)[k])]]
    IN SubSeq(all, 1, Min(ScanCap, Len(all)))

get_unencrypted_ebs_volumes(vols) ==
    LET hit == {v \in Indices(vols) :
                   /\ ~vols[v].encrypted
                   /\ vols[v].kms = "none"
                   /\ vols[v].state = "in-use"}
        all == [k \in 1..Cardinality(hit) |->
                   [volume_id |-> Ascending(hit)[k],
                    instance_id |-> vols[Ascending(hit)[k]].inst,
                    instance_name |->
                       ebs_get_instance_name(vols[Ascending(hit)[k]].inst),
                    volume_name |-> ebs_get_volume_name(vols, Ascending(hit)[k])]]
    IN SubSeq(all, 1, Min(ScanCap, Len(all)))

\* instance.volumes.all(): the volumes attached to the instance
InstanceVolumes(vols, i) ==
    Ascending({v \in Indices(vols) : vols[v].inst = i /\ vols[v].state = "in-use"})

gather_unencrypted_info(vols) ==
    LET unenc(v) == ~vols[v].encrypted
        found(i) == SelectSeq(InstanceVolumes(vols, i), unenc)
        info == [k \in 1..Len(InstanceOrder) |->
                    [instance_id |-> InstanceOrder[k],
                     instance_name |-> get_instance_name(instances[InstanceOrder[k]]),
                     volumes |-> found(InstanceOrder[k]),
                     volume_names |->
                        [n \in 1..Len(found(InstanceOrder[k])) |->
                            get_volume_name(vols[found(InstanceOrder[k])[n]])]]]
        some(r) == r.volumes # <<>>
    IN SelectSeq(info, some)

-----------------------------------------------------------------------------
(* Start of a run *)

NoLoc ==
    [volume_id |-> 0, instance_id |-> "none", snapshot_id |-> 0,
     encrypted_snapshot_id |-> 0, device |-> "none", az |-> "none",
     encrypted_volume_id |-> 0, tags |-> {}, todo |-> <<>>]

Init ==
    /\ engine \in Engines
    /\ pc = "main"
    /\ confirmed = FALSE
    /\ \E prof \in [Instances -> InstanceProfiles],
          place \in [1..MaxVols -> Instances],
          enc \in [1..MaxVols -> BOOLEAN],
          tg \in [1..MaxVols -> TagChoices] :
          /\ place[1] = "i1" /\ ~enc[1]
          /\ \A k \in 2..MaxVols : tg[k] \in {{}, {<<"Name", "data">>}}
          /\ \A i \in Instances :
                (\A k \in 1..MaxVols : place[k] # i) => prof[i] = Plain
          /\ instances = [i \in Instances |-> prof[i]]
          /\ volumes = [k \in 1..MaxVols |->
                           SourceVolume(k, place[k], enc[k], tg[k])]
    /\ snapshots = <<>>
    /\ queue = <<>>
    /\ job = 0
    /\ jobs = <<>>
    /\ loc = NoLoc
    /\ calls = <<>>
    /\ faults = 0

-----------------------------------------------------------------------------
(* Bookkeeping shared by the steps of a job *)

NewJob(v, i) ==
    [vol |-> v, inst |-> i, outcome |-> "RUNNING", failedAt |-> "none",
     stopRet |-> "none", start |-> Cloud]

\* the loop of the batch takes the next candidate, or the run ends
LoopPc == IF job < Len(queue) THEN "next_job" ELSE "finished"

\* main without its try/except: the first exception ends the run
main_except_uncaught == "crashed"

\* an exception after which the run neither ends nor goes on
main_except_hangs == "hung"

\* an exception leaves encrypt_ebs_volumes uncaught and ends the run; main of
\* encrypt_instances_volumes.py catches it, logs it and goes on with the loop
main_except == IF engine = "inst" THEN LoopPc ELSE "crashed"

\* the step goes on to the next step of the same job
Go(next, evs, faulted) ==
    /\ calls' = calls \o evs
    /\ faults' = IF faulted THEN faults + 1 ELSE faults
    /\ pc' = next
    /\ UNCHANGED <<engine, confirmed, queue, job, jobs>>

\* the job ends with an outcome and the batch loop goes on
Finish(outcome, stage, ret, evs, faulted) ==
    /\ calls' = calls \o evs
    /\ faults' = IF faulted THEN faults + 1 ELSE faults
    /\ jobs' = [jobs EXCEPT ![job].outcome = outcome,
                            ![job].failedAt = stage,
                            ![job].stopRet = ret]
    /\ pc' = LoopPc
    /\ UNCHANGED <<engine, confirmed, queue, job>>

\* an exception handler that rolls back: the instance is started again
Except_compensating(stage, evs, faulted) ==
    /\ calls' = calls \o evs \o <<IEv("start", TRUE, loc.instance_id)>>
    /\ faults' = IF faulted THEN faults + 1 ELSE faults
    /\ jobs' = [jobs EXCEPT ![job].outcome = "FAILED", ![job].failedAt = stage]
    /\ pc' = main_except
    /\ UNCHANGED <<engine, confirmed, queue, job>>

\* an exception leaves the step: the job has failed at this stage
Except(stage, evs, faulted) ==
    /\ calls' = calls \o evs
    /\ faults' = IF faulted THEN faults + 1 ELSE faults
    /\ jobs' = [jobs EXCEPT ![job].outcome = "FAILED", ![job].failedAt = stage]
    /\ pc' = main_except
    /\ UNCHANGED <<engine, confirmed, queue, job>>

\* a provider error (ClientError, WaiterError) is raised out of the step
Raise(stage, evs) == CanFault /\ Except(stage, evs, TRUE)

-----------------------------------------------------------------------------
(* Effects of the provider calls on the cloud *)

StopEffect(insts, i) ==
    [insts EXCEPT ![i].state = IF @ = "running" THEN "stopping" ELSE @]

StartEffect(insts, i) ==
    [insts EXCEPT ![i].state = IF @ = "stopped" THEN "pending" ELSE @]

\* the wait on the instance returns before the state is reached
InstanceReached_early(insts, i, st) == insts

InstanceReached(insts, i, st) == [insts EXCEPT ![i].state = st]

SnapshotCreated(snaps, v) ==
    Append(snaps, [vol |-> v, encrypted |-> FALSE, kms |-> "none",
                   state |-> "pending", fsr |-> {}, src |-> 0, job |-> job])

SnapshotCopied(snaps, s, key) ==
    Append(snaps, [vol |-> snaps[s].vol, encrypted |-> TRUE, kms |-> key,
                   state |-> "pending", fsr |-> {}, src |-> s, job |-> job])

SnapshotCompleted(snaps, s) == [snaps EXCEPT ![s].state = "completed"]

\* the delete call left out: the snapshot stays
SnapshotDeleted_kept(snaps, s) == snaps

SnapshotDeleted(snaps, s) == [snaps EXCEPT ![s].state = "deleted"]

FsrEnabled(snaps, s, z) == [snaps EXCEPT ![s].fsr = @ \cup {z}]

\* the disable call left out: fast snapshot restore stays enabled
FsrDisabled_kept(snaps, s, z) == snaps

FsrDisabled(snaps, s, z) == [snaps EXCEPT ![s].fsr = @ \ {z}]

VolumeDetaching(vols, v) == [vols EXCEPT ![v].state = "detaching"]

\* the source volume is deleted once it is detached
VolumeDetached_deleted(vols, v) ==
    [vols EXCEPT ![v].state = "deleted", ![v].inst = "none",
                 ![v].device = "none"]

\* the detach left out: the source volume stays attached
VolumeDetached_stillAttached(vols, v) == vols

VolumeDetached(vols, v) ==
    [vols EXCEPT ![v].state = "available", ![v].inst = "none",
                 ![v].device = "none"]

\* create_volume without Encrypted=True and KmsKeyId
VolumeCreated_unencrypted(vols, s, az, key) ==
    Append(vols, [encrypted |-> FALSE, kms |-> "none", state |-> "creating",
                  inst |-> "none", device |-> "none", az |-> az,
                  tags |-> {}, snap |-> s])

VolumeCreated(vols, s, az, key) ==
    Append(vols, [encrypted |-> TRUE, kms |-> key, state |-> "creating",
                  inst |-> "none", device |-> "none", az |-> az,
                  tags |-> {}, snap |-> s])

\* the wait for the new volume returns while it is still being created
VolumeAvailable_creating(vols, v) == vols

VolumeAvailable(vols, v) == [vols EXCEPT ![v].state = "available"]

VolumeTagged(vols, v, tags) == [vols EXCEPT ![v].tags = @ \cup tags]

\* the new volume attached at the first device name, whatever was recorded
VolumeAttaching_firstDevice(vols, v, i, d) ==
    [vols EXCEPT ![v].state = "attaching", ![v].inst = i,
                 ![v].device = Devices[1]]

VolumeAttaching(vols, v, i, d) ==
    [vols EXCEPT ![v].state = "attaching", ![v].inst = i, ![v].device = d]

\* the wait for the attachment returns while the volume is still attaching
VolumeInUse_attaching(vols, v) == vols

VolumeInUse(vols, v) == [vols EXCEPT ![v].state = "in-use"]

-----------------------------------------------------------------------------
(* scripts/encrypt_ebs_volumes.py *)

\* main and the head of encrypt_ebs_volumes: no prompt, scan, loop
encrypt_ebs_volumes_scan ==
    /\ pc = "main" /\ engine = "ebs"
    /\ queue' = get_unencrypted_ebs_volumes(volumes)
    /\ pc' = IF queue' = <<>> THEN "finished" ELSE "next_job"
    /\ UNCHANGED <<engine, confirmed, instances, volumes, snapshots, job,
                   jobs, loc, calls, faults>>

encrypt_ebs_volumes_next ==
    /\ pc = "next_job" /\ engine = "ebs"
    /\ job' = job + 1
    /\ loc' = [NoLoc EXCEPT !.volume_id = queue[job + 1].volume_id,
                            !.instance_id = queue[job + 1].instance_id]
    /\ jobs' = Append(jobs, NewJob(queue[job + 1].volume_id,
                                   queue[job + 1].instance_id))
    /\ pc' = "stop_instance"
    /\ UNCHANGED <<engine, confirmed, instances, volumes, snapshots, queue,
                   calls, faults>>

\* between the scan (line 312) and the describe_volumes of the job (line 336)
\* the region is not frozen: a candidate volume may be detached by someone
\* else, and volume_info then has no attachment (device is None, line 364)
detached_after_scan ==
    /\ pc = "next_job" /\ engine = "ebs" /\ job = 0
    /\ \E c \in Range(queue) :
          /\ volumes[c.volume_id].state = "in-use"
          /\ volumes' = VolumeDetached(volumes, c.volume_id)
    /\ UNCHANGED <<engine, pc, confirmed, instances, snapshots, queue, job,
                   jobs, loc, calls, faults>>

is_instance_managed_by_asg_or_spot(i) ==
    \/ instances[i].spot
    \/ \E t \in instances[i].tags : t[1] = "aws:autoscaling:groupName"

stop_instance ==
    /\ pc = "stop_instance"
    /\ LET i == loc.instance_id
           elig == IEv("eligibility", TRUE, i)
       IN
       \/ /\ is_instance_managed_by_asg_or_spot(i)
          /\ Finish("SKIPPED", "eligibility", "False", <<elig>>, FALSE)
          /\ UNCHANGED <<instances, volumes, snapshots, loc>>
       \/ /\ ~is_instance_managed_by_asg_or_spot(i)
          /\ ~instances[i].stoppable
          \* ClientError UnsupportedOperation: warning, return False
          /\ Finish("SKIPPED", "stop", "False",
                    <<elig, IEv("stop", FALSE, i)>>, FALSE)
          /\ UNCHANGED <<instances, volumes, snapshots, loc>>
       \/ /\ ~is_instance_managed_by_asg_or_spot(i)
          /\ instances[i].stoppable
          \* any other ClientError is raised again
          /\ Raise("stop", <<elig, IEv("stop", FALSE, i)>>)
          /\ UNCHANGED <<instances, volumes, snapshots, loc>>
       \/ /\ ~is_instance_managed_by_asg_or_spot(i)
          /\ instances[i].stoppable
          /\ CanFault
          \* WaiterError: logged as an error, return False
          /\ instances' = StopEffect(instances, i)
          /\ Finish("FAILED", "wait_stopped", "False",
                    <<elig, IEv("stop", TRUE, i),
                      IEv("wait_stopped", FALSE, i)>>, TRUE)
          /\ UNCHANGED <<volumes, snapshots, loc>>
       \/ /\ ~is_instance_managed_by_asg_or_spot(i)
          /\ instances[i].stoppable
          /\ instances' = InstanceReached(StopEffect(instances, i), i, "stopped")
          /\ Go("create_snapshot",
                <<elig, IEv("stop", TRUE, i), IEv("wait_stopped", TRUE, i)>>,
                FALSE)
          /\ UNCHANGED <<volumes, snapshots, loc>>

\* create_snapshot and the wait_for_snapshot that follows it
create_snapshot ==
    /\ pc = "create_snapshot"
    /\ LET v == loc.volume_id
           s == Len(snapshots) + 1
       IN
       \/ /\ Raise("snapshot", <<VEv("snapshot", FALSE, v)>>)
          /\ UNCHANGED <<instances, volumes, snapshots, loc>>
       \/ /\ snapshots' = SnapshotCreated(snapshots, v)
          /\ loc' = [loc EXCEPT !.snapshot_id = s]
          /\ Raise("wait_snapshot",
                   <<Ev("snapshot", TRUE, "none", v, s),
                     SEv("wait_snapshot", FALSE, s)>>)
          /\ UNCHANGED <<instances, volumes>>
       \/ /\ snapshots' = SnapshotCompleted(SnapshotCreated(snapshots, v), s)
          /\ loc' = [loc EXCEPT !.snapshot_id = s]
          /\ Go("copy_snapshot_with_encryption",
                <<Ev("snapshot", TRUE, "none", v, s),
                  SEv("wait_snapshot", TRUE, s)>>, FALSE)
          /\ UNCHANGED <<instances, volumes>>

\* volume_info is read, then copy_snapshot_with_encryption (copy, enable
\* fast snapshot restore) and the wait for the encrypted snapshot
copy_snapshot_with_encryption ==
    /\ pc = "copy_snapshot_with_encryption"
    /\ LET v == loc.volume_id
           s == loc.snapshot_id
           e == Len(snapshots) + 1
           az == volumes[v].az
           dev == IF volumes[v].inst # "none" THEN volumes[v].device ELSE "none"
           info == [loc EXCEPT !.az = az, !.device = dev]
           copied == SnapshotCopied(snapshots, s, TargetKey)
           copyEv == Ev("copy", TRUE, "none", v, e)
       IN
       \/ /\ Raise("copy", <<SEv("copy", FALSE, s)>>)
          /\ loc' = info
          /\ UNCHANGED <<instances, volumes, snapshots>>
       \/ /\ snapshots' = copied
          /\ loc' = info
          /\ Raise("enable_fsr", <<copyEv, FsrEv("enable_fsr", FALSE, e, az)>>)
          /\ UNCHANGED <<instances, volumes>>
       \/ /\ snapshots' = FsrEnabled(copied, e, az)
          /\ loc' = [info EXCEPT !.encrypted_snapshot_id = e]
          /\ Raise("wait_encrypted",
                   <<copyEv, FsrEv("enable_fsr", TRUE, e, az),
                     SEv("wait_encrypted", FALSE, e)>>)
          /\ UNCHANGED <<instances, volumes>>
       \/ /\ snapshots' = SnapshotCompleted(FsrEnabled(copied, e, az), e)
          /\ loc' = [info EXCEPT !.encrypted_snapshot_id = e]
          /\ Go("delete_snapshot",
                <<copyEv, FsrEv("enable_fsr", TRUE, e, az),
                  SEv("wait_encrypted", TRUE, e)>>, FALSE)
          /\ UNCHANGED <<instances, volumes>>

delete_snapshot ==
    /\ pc = "delete_snapshot"
    /\ LET s == loc.snapshot_id
       IN
       \/ /\ Raise("delete", <<SEv("delete", FALSE, s)>>)
          /\ UNCHANGED <<instances, volumes, snapshots, loc>>
       \/ /\ snapshots' = SnapshotDeleted(snapshots, s)
          /\ Go("detach_volume", <<SEv("delete", TRUE, s)>>, FALSE)
          /\ UNCHANGED <<instances, volumes, loc>>

\* ec2.detach_volume names the volume only; the provider answers a volume
\* that has no attachment with a ClientError (IncorrectState)
detach_volume ==
    /\ pc = "detach_volume"
    /\ LET v == loc.volume_id
           attached == volumes[v].state = "in-use"
       IN
       \/ /\ ~attached
          /\ Except("detach", <<VEv("detach", FALSE, v)>>, FALSE)
          /\ UNCHANGED <<instances, volumes, snapshots, loc>>
       \/ /\ attached
          /\ Raise("detach", <<VEv("detach", FALSE, v)>>)
          /\ UNCHANGED <<instances, volumes, snapshots, loc>>
       \/ /\ attached
          /\ volumes' = VolumeDetaching(volumes, v)
          /\ Raise("wait_detached",
                   <<VEv("detach", TRUE, v), VEv("wait_detached", FALSE, v)>>)
          /\ UNCHANGED <<instances, snapshots, loc>>
       \/ /\ attached
          /\ volumes' = VolumeDetached(volumes, v)
          /\ Go("create_encrypted_volume",
                <<VEv("detach", TRUE, v), VEv("wait_detached", TRUE, v)>>,
                FALSE)
          /\ UNCHANGED <<instances, snapshots, loc>>

create_encrypted_volume ==
    /\ pc = "create_encrypted_volume"
    /\ LET e == loc.encrypted_snapshot_id
           n == Len(volumes) + 1
           made == VolumeCreated(volumes, e, loc.az, TargetKey)
           mk == Ev("create_volume", TRUE, "none", n, e)
       IN
       \/ /\ Raise("create_volume", <<SEv("create_volume", FALSE, e)>>)
          /\ UNCHANGED <<instances, volumes, snapshots, loc>>
       \/ /\ volumes' = made
          /\ Raise("wait_volume", <<mk, VEv("wait_volume", FALSE, n)>>)
          /\ UNCHANGED <<instances, snapshots, loc>>
       \/ /\ volumes' = VolumeAvailable(made, n)
          /\ loc' = [loc EXCEPT !.encrypted_volume_id = n]
          /\ Go("copy_tags", <<mk, VEv("wait_volume", TRUE, n)>>, FALSE)
          /\ UNCHANGED <<instances, snapshots>>

\* describe_volumes of the source, then create_tags when it has a Tags key
copy_tags ==
    /\ pc = "copy_tags"
    /\ LET v == loc.volume_id
           n == loc.encrypted_volume_id
           tags == volumes[v].tags
       IN
       \/ /\ Raise("read_tags", <<VEv("read_tags", FALSE, v)>>)
          /\ UNCHANGED <<instances, volumes, snapshots, loc>>
       \/ /\ tags # {}
          /\ Raise("tag", <<VEv("read_tags", TRUE, v), VEv("tag", FALSE, n)>>)
          /\ UNCHANGED <<instances, volumes, snapshots, loc>>
       \/ /\ volumes' = IF tags # {} THEN VolumeTagged(volumes, n, tags)
                        ELSE volumes
          /\ Go("attach_volume",
                <<VEv("read_tags", TRUE, v)>>
                  \o (IF tags # {} THEN <<VEv("tag", TRUE, n)>> ELSE <<>>),
                FALSE)
          /\ UNCHANGED <<instances, snapshots, loc>>

\* if instance_id and device: attach_volume
attach_volume ==
    /\ pc = "attach_volume"
    /\ LET n == loc.encrypted_volume_id
           i == loc.instance_id
           d == loc.device
           do == i # "none" /\ d # "none"
           att == AttEv("attach", TRUE, n, i, d)
       IN
       \/ /\ do
          /\ Raise("attach", <<AttEv("attach", FALSE, n, i, d)>>)
          /\ UNCHANGED <<instances, volumes, snapshots, loc>>
       \/ /\ do
          /\ volumes' = VolumeAttaching(volumes, n, i, d)
          /\ Raise("wait_attached", <<att, VEv("wait_attached", FALSE, n)>>)
          /\ UNCHANGED <<instances, snapshots, loc>>
       \/ /\ volumes' = IF do THEN VolumeInUse(VolumeAttaching(volumes, n, i, d), n)
                        ELSE volumes
          /\ Go("disable_fsr",
                IF do THEN <<att, VEv("wait_attached", TRUE, n)>> ELSE <<>>,
                FALSE)
          /\ UNCHANGED <<instances, snapshots, loc>>

disable_fsr ==
    /\ pc = "disable_fsr"
    /\ LET e == loc.encrypted_snapshot_id
       IN
       \/ /\ Raise("disable_fsr", <<FsrEv("disable_fsr", FALSE, e, loc.az)>>)
          /\ UNCHANGED <<instances, volumes, snapshots, loc>>
       \/ /\ snapshots' = FsrDisabled(snapshots, e, loc.az)
          /\ Go("start_instance", <<FsrEv("disable_fsr", TRUE, e, loc.az)>>,
                FALSE)
          /\ UNCHANGED <<instances, volumes, loc>>

\* start_instance, then the summary: the job is DONE
start_instance ==
    /\ pc = "start_instance"
    /\ LET i == loc.instance_id
       IN
       \/ /\ Raise("start", <<IEv("start", FALSE, i)>>)
          /\ UNCHANGED <<instances, volumes, snapshots, loc>>
       \/ /\ instances' = StartEffect(instances, i)
          /\ Raise("wait_running",
                   <<IEv("start", TRUE, i), IEv("wait_running", FALSE, i)>>)
          /\ UNCHANGED <<volumes, snapshots, loc>>
       \/ /\ instances' = InstanceReached(StartEffect(instances, i), i, "running")
          /\ Finish("DONE", "none", "True",
                    <<IEv("start", TRUE, i), IEv("wait_running", TRUE, i)>>,
                    FALSE)
          /\ UNCHANGED <<volumes, snapshots, loc>>

EbsNext ==
    \/ encrypt_ebs_volumes_scan
    \/ detached_after_scan
    \/ encrypt_ebs_volumes_next
    \/ stop_instance
    \/ create_snapshot
    \/ copy_snapshot_with_encryption
    \/ delete_snapshot
    \/ detach_volume
    \/ create_encrypted_volume
    \/ copy_tags
    \/ attach_volume
    \/ disable_fsr
    \/ start_instance

-----------------------------------------------------------------------------
(* scripts/encrypt_instances_volumes.py *)

Answers == {"y", "yes", "Y", "n", ""}

Lower(a) == IF a = "Y" THEN "y" ELSE a

\* main: the operator is asked before anything else is done
main_confirm ==
    /\ pc = "main" /\ engine = "inst"
    /\ \E user_input \in Answers :
          IF Lower(user_input) \in {"yes", "y"}
          THEN confirmed' = TRUE /\ pc' = "scan"
          ELSE confirmed' = FALSE /\ pc' = "cancelled"
    /\ UNCHANGED <<engine, instances, volumes, snapshots, queue, job, jobs,
                   loc, calls, faults>>

main_scan ==
    /\ pc = "scan"
    /\ queue' = gather_unencrypted_info(volumes)
    /\ pc' = IF queue' = <<>> THEN "finished" ELSE "next_job"
    /\ UNCHANGED <<engine, confirmed, instances, volumes, snapshots, job,
                   jobs, loc, calls, faults>>

\* main's loop calls encrypt_volumes for the next instance
main_next ==
    /\ pc = "next_job" /\ engine = "inst"
    /\ job' = job + 1
    /\ loc' = [NoLoc EXCEPT !.instance_id = queue[job + 1].instance_id]
    /\ jobs' = Append(jobs, NewJob(0, queue[job + 1].instance_id))
    /\ pc' = "ev_eligibility"
    /\ UNCHANGED <<engine, confirmed, instances, volumes, snapshots, queue,
                   calls, faults>>

\* err: describe_auto_scaling_instances raised a ClientError
is_part_of_auto_scaling_group(i, err) ==
    IF err THEN FALSE ELSE instances[i].asg

\* encrypt_volumes, the two checks before anything is touched
ev_eligibility ==
    /\ pc = "ev_eligibility"
    /\ \E err \in BOOLEAN :
          /\ err => CanFault
          /\ LET i == loc.instance_id
                 evs == <<IEv("asg_query", ~err, i), IEv("eligibility", TRUE, i)>>
             IN IF is_part_of_auto_scaling_group(i, err) \/ instances[i].spot
                THEN Finish("SKIPPED", "eligibility", "none", evs, err)
                ELSE Go("ev_stop", evs, err)
    /\ UNCHANGED <<instances, volumes, snapshots, loc>>

\* the loop without its test of volume.encrypted: every volume is taken
ListedVolumes_allTaken(i) ==
    [k \in 1..Len(InstanceVolumes(volumes, i)) |->
        LET v == InstanceVolumes(volumes, i)[k]
        IN [id |-> v, encrypted |-> FALSE,
            tags |-> volumes[v].tags, device |-> volumes[v].device,
            az |-> volumes[v].az]]

\* instance.volumes.all() as the loop reads it
ListedVolumes(i) ==
    [k \in 1..Len(InstanceVolumes(volumes, i)) |->
        LET v == InstanceVolumes(volumes, i)[k]
        IN [id |-> v, encrypted |-> volumes[v].encrypted,
            tags |-> volumes[v].tags, device |-> volumes[v].device,
            az |-> volumes[v].az]]

needs_stop(i) == instances[i].state # "stopped"

\* step 1: stop the instance unless it is stopped already
ev_stop ==
    /\ pc = "ev_stop"
    /\ LET i == loc.instance_id
           listed == [loc EXCEPT !.todo = ListedVolumes(i)]
       IN
       \/ /\ needs_stop(i)
          /\ ~instances[i].stoppable
          \* UnsupportedOperation leaves encrypt_volumes as any exception
          /\ Except("stop", <<IEv("stop", FALSE, i)>>, FALSE)
          /\ UNCHANGED <<instances, volumes, snapshots, loc>>
       \/ /\ needs_stop(i)
          /\ instances[i].stoppable
          /\ Raise("stop", <<IEv("stop", FALSE, i)>>)
          /\ UNCHANGED <<instances, volumes, snapshots, loc>>
       \/ /\ needs_stop(i)
          /\ instances[i].stoppable
          /\ instances' = StopEffect(instances, i)
          /\ Raise("wait_stopped",
                   <<IEv("stop", TRUE, i), IEv("wait_stopped", FALSE, i)>>)
          /\ UNCHANGED <<volumes, snapshots, loc>>
       \/ /\ needs_stop(i)
          /\ instances[i].stoppable
          /\ instances' = InstanceReached(StopEffect(instances, i), i, "stopped")
          /\ loc' = listed
          /\ Go("ev_next_volume",
                <<IEv("stop", TRUE, i), IEv("wait_stopped", TRUE, i)>>, FALSE)
          /\ UNCHANGED <<volumes, snapshots>>
       \/ /\ ~needs_stop(i)
          /\ loc' = listed
          /\ Go("ev_next_volume", <<>>, FALSE)
          /\ UNCHANGED <<instances, volumes, snapshots>>

\* the head of the loop over the instance's volumes
ev_next_volume ==
    /\ pc = "ev_next_volume"
    /\ IF loc.todo = <<>>
       THEN loc' = loc /\ Go("ev_start", <<>>, FALSE)
       ELSE LET h == Head(loc.todo)
            IN /\ loc' = [NoLoc EXCEPT !.instance_id = loc.instance_id,
                                       !.volume_id = h.id,
                                       !.tags = h.tags,
                                       !.device = h.device,
                                       !.az = h.az,
                                       !.todo = Tail(loc.todo)]
               /\ Go(IF h.encrypted THEN "ev_next_volume" ELSE "ev_snapshot",
                     <<>>, FALSE)
    /\ UNCHANGED <<instances, volumes, snapshots>>

\* step 2: snapshot of the volume and the wait for it
ev_snapshot ==
    /\ pc = "ev_snapshot"
    /\ LET v == loc.volume_id
           s == Len(snapshots) + 1
       IN
       \/ /\ Raise("snapshot", <<VEv("snapshot", FALSE, v)>>)
          /\ UNCHANGED <<instances, volumes, snapshots, loc>>
       \/ /\ snapshots' = SnapshotCreated(snapshots, v)
          /\ loc' = [loc EXCEPT !.snapshot_id = s]
          /\ Raise("wait_snapshot",
                   <<Ev("snapshot", TRUE, "none", v, s),
                     SEv("wait_snapshot", FALSE, s)>>)
          /\ UNCHANGED <<instances, volumes>>
       \/ /\ snapshots' = SnapshotCompleted(SnapshotCreated(snapshots, v), s)
          /\ loc' = [loc EXCEPT !.snapshot_id = s]
          /\ Go("ev_copy",
                <<Ev("snapshot", TRUE, "none", v, s),
                  SEv("wait_snapshot", TRUE, s)>>, FALSE)
          /\ UNCHANGED <<instances, volumes>>

\* step 3: encrypted copy, wait, fast snapshot restore in the instance's
\* zone, and the unencrypted snapshot is deleted
ev_copy ==
    /\ pc = "ev_copy"
    /\ LET v == loc.volume_id
           s == loc.snapshot_id
           e == Len(snapshots) + 1
           z == Zone(loc.instance_id)
           known == [loc EXCEPT !.encrypted_snapshot_id = e]
           copied == SnapshotCopied(snapshots, s, TargetKey)
           done == SnapshotCompleted(copied, e)
           copyEv == Ev("copy", TRUE, "none", v, e)
           waitEv == SEv("wait_encrypted", TRUE, e)
           fsrEv == FsrEv("enable_fsr", TRUE, e, z)
       IN
       \/ /\ Raise("copy", <<SEv("copy", FALSE, s)>>)
          /\ UNCHANGED <<instances, volumes, snapshots, loc>>
       \/ /\ snapshots' = copied
          /\ loc' = known
          /\ Raise("wait_encrypted", <<copyEv, SEv("wait_encrypted", FALSE, e)>>)
          /\ UNCHANGED <<instances, volumes>>
       \/ /\ snapshots' = done
          /\ loc' = known
          /\ Raise("enable_fsr",
                   <<copyEv, waitEv, FsrEv("enable_fsr", FALSE, e, z)>>)
          /\ UNCHANGED <<instances, volumes>>
       \/ /\ snapshots' = FsrEnabled(done, e, z)
          /\ loc' = known
          /\ Raise("delete", <<copyEv, waitEv, fsrEv, SEv("delete", FALSE, s)>>)
          /\ UNCHANGED <<instances, volumes>>
       \/ /\ snapshots' = SnapshotDeleted(FsrEnabled(done, e, z), s)
          /\ loc' = known
          /\ Go("ev_detach", <<copyEv, waitEv, fsrEv, SEv("delete", TRUE, s)>>,
                FALSE)
          /\ UNCHANGED <<instances, volumes>>

\* step 4: detach the volume and wait until it is available
ev_detach ==
    /\ pc = "ev_detach"
    /\ LET v == loc.volume_id
       IN
       \/ /\ Raise("detach", <<VEv("detach", FALSE, v)>>)
          /\ UNCHANGED <<instances, volumes, snapshots, loc>>
       \/ /\ volumes' = VolumeDetaching(volumes, v)
          /\ Raise("wait_detached",
                   <<VEv("detach", TRUE, v), VEv("wait_detached", FALSE, v)>>)
          /\ UNCHANGED <<instances, snapshots, loc>>
       \/ /\ volumes' = VolumeDetached(volumes, v)
          /\ Go("ev_create_volume",
                <<VEv("detach", TRUE, v), VEv("wait_detached", TRUE, v)>>,
                FALSE)
          /\ UNCHANGED <<instances, snapshots, loc>>

\* step 5: the encrypted volume, its wait, and fast snapshot restore is
\* disabled
ev_create_volume ==
    /\ pc = "ev_create_volume"
    /\ LET e == loc.encrypted_snapshot_id
           n == Len(volumes) + 1
           z == Zone(loc.instance_id)
           made == VolumeCreated(volumes, e, loc.az, TargetKey)
           mk == Ev("create_volume", TRUE, "none", n, e)
           known == [loc EXCEPT !.encrypted_volume_id = n]
       IN
       \/ /\ Raise("create_volume", <<SEv("create_volume", FALSE, e)>>)
          /\ UNCHANGED <<instances, volumes, snapshots, loc>>
       \/ /\ volumes' = made
          /\ loc' = known
          /\ Raise("wait_volume", <<mk, VEv("wait_volume", FALSE, n)>>)
          /\ UNCHANGED <<instances, snapshots>>
       \/ /\ volumes' = VolumeAvailable(made, n)
          /\ loc' = known
          /\ Raise("disable_fsr",
                   <<mk, VEv("wait_volume", TRUE, n),
                     FsrEv("disable_fsr", FALSE, e, z)>>)
          /\ UNCHANGED <<instances, snapshots>>
       \/ /\ volumes' = VolumeAvailable(made, n)
          /\ snapshots' = FsrDisabled(snapshots, e, z)
          /\ loc' = known
          /\ Go("ev_tags",
                <<mk, VEv("wait_volume", TRUE, n),
                  FsrEv("disable_fsr", TRUE, e, z)>>, FALSE)
          /\ UNCHANGED instances

\* step 6: the tags of the source volume go onto the new volume
ev_tags ==
    /\ pc = "ev_tags"
    /\ LET n == loc.encrypted_volume_id
           tags == loc.tags
       IN
       \/ /\ tags # {}
          /\ Raise("tag", <<VEv("tag", FALSE, n)>>)
          /\ UNCHANGED <<instances, volumes, snapshots, loc>>
       \/ /\ volumes' = IF tags # {} THEN VolumeTagged(volumes, n, tags)
                        ELSE volumes
          /\ Go("ev_attach",
                IF tags # {} THEN <<VEv("tag", TRUE, n)>> ELSE <<>>, FALSE)
          /\ UNCHANGED <<instances, snapshots, loc>>

\* step 7: attach the new volume at the device of the old one
ev_attach ==
    /\ pc = "ev_attach"
    /\ LET n == loc.encrypted_volume_id
           i == loc.instance_id
           d == loc.device
           att == AttEv("attach", TRUE, n, i, d)
       IN
       \/ /\ Raise("attach", <<AttEv("attach", FALSE, n, i, d)>>)
          /\ UNCHANGED <<instances, volumes, snapshots, loc>>
       \/ /\ volumes' = VolumeAttaching(volumes, n, i, d)
          /\ Raise("wait_attached", <<att, VEv("wait_attached", FALSE, n)>>)
          /\ UNCHANGED <<instances, snapshots, loc>>
       \/ /\ volumes' = VolumeInUse(VolumeAttaching(volumes, n, i, d), n)
          /\ Go("ev_next_volume", <<att, VEv("wait_attached", TRUE, n)>>, FALSE)
          /\ UNCHANGED <<instances, snapshots, loc>>

\* step 8: start the instance; the summary ends the job
ev_start ==
    /\ pc = "ev_start"
    /\ LET i == loc.instance_id
       IN
       \/ /\ Raise("start", <<IEv("start", FALSE, i)>>)
          /\ UNCHANGED <<instances, volumes, snapshots, loc>>
       \/ /\ instances' = StartEffect(instances, i)
          /\ Raise("wait_running",
                   <<IEv("start", TRUE, i), IEv("wait_running", FALSE, i)>>)
          /\ UNCHANGED <<volumes, snapshots, loc>>
       \/ /\ instances' = InstanceReached(StartEffect(instances, i), i, "running")
          /\ Finish("DONE", "none", "none",
                    <<IEv("start", TRUE, i), IEv("wait_running", TRUE, i)>>,
                    FALSE)
          /\ UNCHANGED <<volumes, snapshots, loc>>

InstNext ==
    \/ main_confirm
    \/ main_scan
    \/ main_next
    \/ ev_eligibility
    \/ ev_stop
    \/ ev_next_volume
    \/ ev_snapshot
    \/ ev_copy
    \/ ev_detach
    \/ ev_create_volume
    \/ ev_tags
    \/ ev_attach
    \/ ev_start

-----------------------------------------------------------------------------

Next == EbsNext \/ InstNext

Spec == Init /\ [][Next]_vars

-----------------------------------------------------------------------------
(* What the properties below talk about *)

\* the current job has reached its outcome and the next one has not begun
Ended == job >= 1 /\ pc \in {"next_job", "finished", "crashed"}

Cur == jobs[job]

JobCalls(j) == {k \in 1..Len(calls) : calls[k].job = j}

\* mutating calls the provider accepted for job j
Accepted(j) ==
    {k \in JobCalls(j) : calls[k].op \in MutatingOps /\ calls[k].ok}

\* the instance of job j was spot or in an auto-scaling group at job start
Managed(j) ==
    LET i == jobs[j].start.instances[jobs[j].inst] IN i.spot \/ i.asg

\* the source volumes job j is to migrate
Sources(j) ==
    IF engine = "ebs" THEN {jobs[j].vol}
    ELSE {v \in 1..Len(jobs[j].start.volumes) :
             /\ jobs[j].start.volumes[v].inst = jobs[j].inst
             /\ ~jobs[j].start.volumes[v].encrypted}

-----------------------------------------------------------------------------
(* C1: in both engines no mutating call of a job precedes the job's         *)
(* eligibility check, and a job whose instance is spot-lifecycle or in an   *)
(* auto-scaling group issues no mutating call and ends SKIPPED with the     *)
(* cloud as it was at the start of the job.                                 *)
C1_EligibilityBeforeMutation ==
    /\ \A k \in 1..Len(calls) :
          calls[k].op \in MutatingOps =>
             \E m \in 1..(k - 1) :
                calls[m].job = calls[k].job /\ calls[m].op = "eligibility"
    /\ \A j \in 1..Len(jobs) :
          Managed(j) =>
             /\ \A k \in JobCalls(j) : calls[k].op \notin MutatingOps
             /\ jobs[j].outcome \in {"RUNNING", "SKIPPED"}
    /\ (Ended /\ Managed(job)) => Cloud = Cur.start

(* C2: in encrypt_ebs_volumes.py, whenever stop_instance returned False and *)
(* the job was skipped, the provider has accepted no mutating call of that  *)
(* job and the instance is in the state it had at the start of the job.     *)
C2_SkippedJobMutatesNothing ==
    (engine = "ebs" /\ Ended /\ Cur.stopRet = "False") =>
       /\ Accepted(job) = {}
       /\ instances[Cur.inst].state = Cur.start.instances[Cur.inst].state

(* C3: in main of encrypt_instances_volumes.py a failure of encrypt_volumes *)
(* for one instance never ends the run: encrypt_volumes is invoked once per *)
(* instance of gather_unencrypted_info, in scan order, also after a failed  *)
(* job.                                                                     *)
C3_FailureDoesNotAbortBatch ==
    engine = "inst" =>
       /\ pc # "crashed"
       /\ \A j \in 1..Len(jobs) : jobs[j].inst = queue[j].instance_id
       /\ \A j1, j2 \in 1..Len(queue) :
             queue[j1].instance_id = queue[j2].instance_id => j1 = j2
       /\ (Ended /\ Cur.outcome = "FAILED" /\ job < Len(queue)) =>
             (pc = "next_job" /\ ENABLED main_next)
       /\ (pc = "finished") => Len(jobs) = Len(queue)

C3_Witness ==
    /\ engine = "inst" /\ pc = "finished" /\ Len(jobs) = 2
    /\ jobs[1].outcome = "FAILED" /\ jobs[1].failedAt = "detach"
    /\ jobs[2].outcome = "DONE"

(* C4: in encrypt_ebs_volumes, when the wait for the source snapshot fails, *)
(* the job is FAILED, its source volume (attached when the job began) is    *)
(* still attached and unencrypted, and the next candidate volume of the     *)
(* batch is still processed.                                                *)
C4_SnapshotWaitFailureIsPerJob ==
    (/\ engine = "ebs" /\ Ended /\ Cur.failedAt = "wait_snapshot"
     /\ Cur.start.volumes[Cur.vol].inst = Cur.inst) =>
       /\ Cur.outcome = "FAILED"
       /\ volumes[Cur.vol].state = "in-use"
       /\ volumes[Cur.vol].inst = Cur.inst
       /\ ~volumes[Cur.vol].encrypted
       /\ job < Len(queue) => pc = "next_job"

\* the unencrypted snapshots job j created
JobSnapshots(j) ==
    {s \in 1..Len(snapshots) : snapshots[s].job = j /\ ~snapshots[s].encrypted}

\* the encrypted snapshots of job j on which fast snapshot restore was enabled,
\* with the call that enabled it
JobFsr(j) ==
    {k \in JobCalls(j) : calls[k].op = "enable_fsr" /\ calls[k].ok}

\* volume n was made from the encrypted copy of a snapshot of volume v
Replaces(n, v) ==
    /\ volumes[n].snap # 0
    /\ snapshots[volumes[n].snap].src # 0
    /\ snapshots[snapshots[volumes[n].snap].src].vol = v

\* the volumes a scan of the cloud as it is now returns
Rescan ==
    IF engine = "ebs"
    THEN {c.volume_id : c \in Range(get_unencrypted_ebs_volumes(volumes))}
    ELSE UNION {Range(c.volumes) : c \in Range(gather_unencrypted_info(volumes))}

(* C5: when a job is DONE, for every source volume of the job that was      *)
(* attached at job start: the unencrypted snapshot is deleted, fast restore *)
(* is disabled on the encrypted snapshot, and a volume with encrypted =     *)
(* true made from that snapshot, in the source's zone, under the target     *)
(* key, is in use on the original instance at the original device, and the  *)
(* instance is running.                                                     *)
C5_DonePostcondition ==
    (Ended /\ Cur.outcome = "DONE") =>
       /\ instances[Cur.inst].state = "running"
       /\ \A v \in Sources(job) :
             Cur.start.volumes[v].inst # "none" =>
                \E s, e \in 1..Len(snapshots), n \in 1..Len(volumes) :
                   /\ s \in JobSnapshots(job)
                   /\ snapshots[s].vol = v
                   /\ snapshots[s].state = "deleted"
                   /\ snapshots[e].job = job
                   /\ snapshots[e].src = s
                   /\ snapshots[e].encrypted
                   /\ snapshots[e].kms = TargetKey
                   /\ snapshots[e].fsr = {}
                   /\ \E k \in JobCalls(job) :
                         /\ calls[k].op = "disable_fsr" /\ calls[k].ok
                         /\ calls[k].snap = e
                   /\ volumes[n].snap = e
                   /\ volumes[n].encrypted
                   /\ volumes[n].kms = TargetKey
                   /\ volumes[n].az = Cur.start.volumes[v].az
                   /\ volumes[n].state = "in-use"
                   /\ volumes[n].inst = Cur.inst
                   /\ volumes[n].inst = Cur.start.volumes[v].inst
                   /\ volumes[n].device = Cur.start.volumes[v].device

C5_Witness ==
    /\ engine = "ebs" /\ Ended /\ job = 2
    /\ Cur.outcome = "DONE" /\ jobs[1].outcome = "DONE"
    /\ Cur.start.volumes[Cur.vol].inst = Cur.inst

(* C6: after a job is DONE, a scan of the resulting cloud returns neither a *)
(* source volume of the job nor the volume that replaced it.                *)
C6_RoundTrip ==
    (Ended /\ Cur.outcome = "DONE") =>
       \A v \in Sources(job) :
          /\ v \notin Rescan
          /\ \A n \in 1..Len(volumes) : Replaces(n, v) => n \notin Rescan

C6_Witness ==
    /\ engine = "inst" /\ Ended /\ job = 1 /\ Cur.outcome = "DONE"
    /\ \E v \in Sources(job), n \in 1..Len(volumes) : Replaces(n, v)
    /\ Rescan # {}

PreDeleteStages ==
    {"wait_snapshot", "copy", "enable_fsr", "wait_encrypted", "delete"}

(* C7, as claimed: at every terminal outcome of a job, DONE or FAILED,      *)
(* every unencrypted snapshot the job created has been deleted.             *)
C7_SnapshotNeverLeftBehind ==
    (Ended /\ Cur.outcome \in {"DONE", "FAILED"}) =>
       \A s \in JobSnapshots(job) : snapshots[s].state = "deleted"

(* C7, amended: when a job has ended, every unencrypted snapshot it created *)
(* has been deleted, except the snapshot of the volume in progress when the *)
(* job FAILED between the creation of that snapshot and the end of its      *)
(* delete call; that one is left as it was.                                 *)
C7_SnapshotDeletedUnlessFailedBeforeDelete ==
    Ended =>
       \A s \in JobSnapshots(job) :
          IF /\ Cur.outcome = "FAILED"
             /\ Cur.failedAt \in PreDeleteStages
             /\ s = loc.snapshot_id
          THEN snapshots[s].state # "deleted"
          ELSE snapshots[s].state = "deleted"

C7_Witness ==
    /\ Ended /\ Cur.outcome = "FAILED" /\ Cur.failedAt = "attach"
    /\ JobSnapshots(job) # {}
    /\ \A s \in JobSnapshots(job) : snapshots[s].state = "deleted"

PostDetachStages ==
    {"detach", "wait_detached", "create_volume", "wait_volume", "read_tags",
     "tag", "attach", "wait_attached"}

\* the stages between the enabling of fast snapshot restore and the end of
\* the call that disables it
FsrWindow ==
    IF engine = "ebs"
    THEN {"wait_encrypted", "delete", "detach", "wait_detached",
          "create_volume", "wait_volume", "read_tags", "tag", "attach",
          "wait_attached", "disable_fsr"}
    ELSE {"delete", "detach", "wait_detached", "create_volume",
          "wait_volume", "disable_fsr"}

\* fast snapshot restore enabled by call k has been disabled again, on the
\* same snapshot and zone
DisabledAgain(k) ==
    /\ snapshots[calls[k].snap].fsr = {}
    /\ \E d \in JobCalls(calls[k].job) :
          /\ d > k
          /\ calls[d].op = "disable_fsr" /\ calls[d].ok
          /\ calls[d].snap = calls[k].snap
          /\ calls[d].zone = calls[k].zone

(* C8, as claimed: whenever a job enabled fast restore on its encrypted     *)
(* snapshot, it is disabled on that snapshot and zone when the job is DONE  *)
(* or FAILED at detach, create-volume, tag copy or attach.                  *)
C8_FastRestoreNeverLeaks ==
    (Ended /\ (\/ Cur.outcome = "DONE"
               \/ Cur.outcome = "FAILED" /\ Cur.failedAt \in PostDetachStages)) =>
       \A k \in JobFsr(job) : DisabledAgain(k)

(* C8, amended: when a job has ended, fast restore it enabled is disabled   *)
(* on the same snapshot and zone, except on the snapshot of the volume in   *)
(* progress when the job FAILED between the enabling and the end of the     *)
(* disable call (FsrWindow); there it is still enabled.                     *)
C8_FastRestoreDisabledUnlessFailedBeforeDisable ==
    Ended =>
       \A k \in JobFsr(job) :
          IF /\ Cur.outcome = "FAILED"
             /\ Cur.failedAt \in FsrWindow
             /\ calls[k].snap = loc.encrypted_snapshot_id
          THEN calls[k].zone \in snapshots[calls[k].snap].fsr
          ELSE DisabledAgain(k)

C8_Witness ==
    /\ engine = "inst" /\ Ended
    /\ Cur.outcome = "FAILED" /\ Cur.failedAt = "attach"
    /\ JobFsr(job) # {}
    /\ \A k \in JobFsr(job) : DisabledAgain(k)

(* C9: in both engines, when the instance is already stopped at the stop    *)
(* stage, no stop call is issued and the job goes on to the snapshot.       *)
C9_StopIsIdempotent ==
    \A j \in 1..Len(jobs) :
       (/\ jobs[j].start.instances[jobs[j].inst].state = "stopped"
        /\ ~Managed(j)) =>
          /\ \A k \in JobCalls(j) : calls[k].op # "stop"
          /\ jobs[j].failedAt \notin {"stop", "wait_stopped"}

(* C10: in both engines a stop call that fails with UnsupportedOperation    *)
(* makes the job SKIPPED with no further stage; any other failure of the    *)
(* stop stage makes the job FAILED and the batch goes on.                   *)
C10_StopFailureOutcome ==
    (Ended /\ Cur.failedAt \in {"stop", "wait_stopped"}) =>
       IF Cur.failedAt = "stop" /\ ~instances[Cur.inst].stoppable
       THEN /\ Cur.outcome = "SKIPPED"
            /\ calls[Len(calls)].op = "stop"
       ELSE /\ Cur.outcome = "FAILED"
            /\ pc # "crashed"

-----------------------------------------------------------------------------
\* the instance of job j was already stopped when the job began
StoppedBefore(j) == jobs[j].start.instances[jobs[j].inst].state = "stopped"

(* C11: in encrypt_volumes of encrypt_instances_volumes.py, a job whose     *)
(* instance was already stopped at job start issues no start call, and the  *)
(* instance is still stopped when the job is DONE.                          *)
C11_StartOnlyIfStoppedByJob ==
    engine = "inst" =>
       \A j \in 1..Len(jobs) :
          StoppedBefore(j) =>
             /\ \A k \in JobCalls(j) : calls[k].op # "start"
             /\ (j = job /\ Ended /\ Cur.outcome = "DONE") =>
                   instances[Cur.inst].state = "stopped"

-----------------------------------------------------------------------------
\* the stages of a job after the detach of the source volume, up to the attach
AfterDetachStages ==
    {"create_volume", "wait_volume", "read_tags", "tag", "attach",
     "wait_attached"}

\* job j has FAILED at a stage after the detach of its source volume
FailedAfterDetach(j) ==
    jobs[j].outcome = "FAILED" /\ jobs[j].failedAt \in AfterDetachStages

\* the snapshots job j created
OwnSnapshots(j) == {s \in 1..Len(snapshots) : snapshots[s].job = j}

\* the source volumes job j took a snapshot of and the volumes it created
OwnVolumes(j) ==
    {v \in 1..Len(volumes) :
        \E s \in OwnSnapshots(j) : snapshots[s].vol = v \/ volumes[v].snap = s}

(* C12: no automatic rollback.  In both engines the step in which a job     *)
(* fails after the detach of its source volume (create-encrypted-volume,    *)
(* its wait, tag copy, attach) ends with the failed call and issues no      *)
(* call after it: the source volume is detached, the instance is stopped,   *)
(* and the snapshots and the other volumes are as the step found them; from *)
(* then on no call is issued for that job and its instance, snapshots and   *)
(* volumes stay as they were at the failure.                                *)
C12_NoRollback ==
    [][ /\ (/\ job >= 1 /\ job' = job
            /\ jobs[job].outcome = "RUNNING"
            /\ FailedAfterDetach(job)') =>
              /\ \A k \in (Len(calls) + 1)..Len(calls') :
                    /\ calls'[k].job = job
                    /\ calls'[k].ok = (k < Len(calls'))
              /\ calls'[Len(calls')].op = jobs'[job].failedAt
              /\ instances' = instances
              /\ instances[jobs[job].inst].state = "stopped"
              /\ snapshots' = snapshots
              /\ \A v \in 1..Len(volumes) :
                    v # loc.encrypted_volume_id => volumes'[v] = volumes[v]
              /\ volumes'[loc.volume_id].state = "available"
              /\ volumes'[loc.volume_id].inst = "none"
        /\ \A j \in 1..Len(jobs) :
              FailedAfterDetach(j) =>
                 /\ jobs'[j] = jobs[j]
                 /\ \A k \in (Len(calls) + 1)..Len(calls') : calls'[k].job # j
                 /\ instances'[jobs[j].inst] = instances[jobs[j].inst]
                 /\ \A s \in OwnSnapshots(j) : snapshots'[s] = snapshots[s]
                 /\ \A v \in OwnVolumes(j) : volumes'[v] = volumes[v]
      ]_vars

C12_Witness ==
    /\ engine = "inst" /\ pc = "finished" /\ job = 2
    /\ jobs[1].outcome = "FAILED" /\ jobs[1].failedAt = "create_volume"
    /\ jobs[2].outcome = "DONE"
    /\ instances[jobs[1].inst].state = "stopped"
    /\ \E v \in OwnVolumes(1) :
          volumes[v].state = "available" /\ ~volumes[v].encrypted

-----------------------------------------------------------------------------
(* C13: in both engines the device path recorded when the detach call is    *)
(* about to be issued is the one of the source volume's attachment, and     *)
(* every attach call names a volume made from a source volume the job has   *)
(* detached, with exactly the device path and the instance id that source   *)
(* volume had at job start; the provider attaches it there.                 *)
C13_DeviceReused ==
    /\ pc \in {"detach_volume", "ev_detach"} =>
          loc.device = volumes[loc.volume_id].device
    /\ \A k \in 1..Len(calls) :
          calls[k].op = "attach" =>
             \E v \in 1..Len(volumes) :
                LET was == jobs[calls[k].job].start.volumes[v]
                IN /\ Replaces(calls[k].vol, v)
                   /\ was.device # "none"
                   /\ calls[k].dev = was.device
                   /\ calls[k].inst = was.inst
                   /\ calls[k].inst = jobs[calls[k].job].inst
                   /\ \E d \in 1..(k - 1) :
                         /\ calls[d].job = calls[k].job
                         /\ calls[d].op = "detach" /\ calls[d].ok
                         /\ calls[d].vol = v
                   /\ calls[k].ok =>
                         /\ volumes[calls[k].vol].device = was.device
                         /\ volumes[calls[k].vol].inst = was.inst

C13_Witness ==
    /\ Ended /\ Cur.outcome = "DONE"
    /\ \E k \in JobCalls(job) :
          /\ calls[k].op = "attach" /\ calls[k].ok
          /\ calls[k].dev = Devices[2]
          /\ calls[k].inst = "i2"
          /\ volumes[calls[k].vol].state = "in-use"

-----------------------------------------------------------------------------
(* C14: in both engines every attach call carries a recorded instance id    *)
(* and a recorded device path; a job whose source volume has no attachment  *)
(* (no device path recorded), when no provider call fails for a transient   *)
(* reason and the instance is eligible, ends DONE with the volume migrated  *)
(* (an encrypted volume made from it exists) and with no attach call.       *)
C14_AttachOnlyIfRecorded ==
    /\ \A k \in 1..Len(calls) :
          calls[k].op = "attach" =>
             calls[k].inst # "none" /\ calls[k].dev # "none"
    /\ (/\ Ended /\ Cur.vol # 0
        /\ Cur.start.volumes[Cur.vol].inst = "none"
        /\ Cur.outcome # "SKIPPED"
        /\ faults = 0) =>
          /\ Cur.outcome = "DONE"
          /\ \A k \in JobCalls(job) : calls[k].op # "attach"
          /\ \E n \in 1..Len(volumes) :
                Replaces(n, Cur.vol) /\ volumes[n].encrypted

-----------------------------------------------------------------------------
(* C15: in both engines a provider error on the read of the source volume's *)
(* tags or on the tag write never fails the job: no job ends at the tag     *)
(* copy, and after such an error the run is still in that job, on its way   *)
(* to the attach.                                                           *)
C15_TagCopyNeverFailsJob ==
    /\ \A j \in 1..Len(jobs) : jobs[j].failedAt \notin {"read_tags", "tag"}
    /\ \A k \in 1..Len(calls) :
          (calls[k].op \in {"read_tags", "tag"} /\ ~calls[k].ok) =>
             \/ jobs[calls[k].job].outcome \in {"RUNNING", "DONE"}
             \/ \E m \in (k + 1)..Len(calls) : calls[m].job = calls[k].job

-----------------------------------------------------------------------------
\* the tag keys of the model that the provider reserves (prefix "aws:")
ReservedKeys == {"aws:cloudformation:stack-name", AsgTag[1]}

UserTags(tags) == {t \in tags : t[1] \notin ReservedKeys}

(* C16: in both engines, once the tag copy of a volume is over, the new     *)
(* volume carries exactly the user tags of the source volume (every tag     *)
(* whose key is not provider-reserved, and no reserved one), and a tag      *)
(* write is issued only for a source volume that carries tags.              *)
C16_CopiesExactlyUserTags ==
    /\ pc \in {"attach_volume", "ev_attach"} =>
          volumes[loc.encrypted_volume_id].tags =
             UserTags(volumes[loc.volume_id].tags)
    /\ \A k \in 1..Len(calls) :
          calls[k].op = "tag" =>
             \E v \in 1..Len(volumes) :
                Replaces(calls[k].vol, v) /\ volumes[v].tags # {}

-----------------------------------------------------------------------------
\* the eligibility check of job j has been made
Checked(j) == \E k \in JobCalls(j) : calls[k].op = "eligibility"

\* job j was skipped by the eligibility check
Rejected(j) ==
    jobs[j].outcome = "SKIPPED" /\ jobs[j].failedAt = "eligibility"

(* C17: in both engines the eligibility check skips a job if and only if    *)
(* the instance is an auto-scaling-group member or a spot instance,         *)
(* whatever the state of its volumes, also when the auto-scaling            *)
(* membership query returns a provider error.                               *)
C17_EligibilityIsTotal ==
    \A j \in 1..Len(jobs) : Checked(j) => (Rejected(j) <=> Managed(j))

-----------------------------------------------------------------------------
(* The scanners on their own: a region of any volumes, and the first steps  *)
(* of the two entry points up to the scan                                   *)

\* number of volumes in the scanned region
MaxRegion == 5

\* what describe_volumes and instance.volumes.all() can list: the fields the
\* scanners read (Encrypted, KmsKeyId, State, Attachments) and the tags
RegionVolume(k, i, enc, kms, tags) ==
    [encrypted |-> enc, kms |-> kms,
     state |-> IF i = "none" THEN "available" ELSE "in-use",
     inst |-> i,
     device |-> IF i = "none" THEN "none" ELSE Devices[((k - 1) % Len(Devices)) + 1],
     az |-> Zone(i), tags |-> tags, snap |-> 0]

\* attachment, Encrypted, KmsKeyId and Tags of the volumes of a region
VolumeKinds ==
    { <<"i1", FALSE, "none", {}>>,
      <<"i2", FALSE, "none", {<<"Name", "data">>}>>,
      <<"none", FALSE, "none", {}>>,
      <<"i1", FALSE, "other-key", {}>>,
      <<"i1", TRUE, "other-key", {<<"Name", "data">>}>>,
      <<"i2", TRUE, "none", {}>> }

ScanInit ==
    /\ engine \in Engines
    /\ pc = "main"
    /\ confirmed = FALSE
    /\ instances = [i \in Instances |-> Plain]
    /\ \E n \in 1..MaxRegion :
          \E kind \in [1..n -> VolumeKinds] :
             volumes = [k \in 1..n |->
                           RegionVolume(k, kind[k][1], kind[k][2], kind[k][3],
                                        kind[k][4])]
    /\ snapshots = <<>>
    /\ queue = <<>>
    /\ job = 0
    /\ jobs = <<>>
    /\ loc = NoLoc
    /\ calls = <<>>
    /\ faults = 0

ScanNext ==
    \/ encrypt_ebs_volumes_scan
    \/ main_confirm
    \/ main_scan

ScanSpec == ScanInit /\ [][ScanNext]_vars

\* what the scan of the running entry point has returned
Scanned == pc \in {"next_job", "finished"}

\* the volumes named in the result of gather_unencrypted_info
Gathered(info) == UNION {Range(c.volumes) : c \in Range(info)}

\* the volumes named in the result of get_unencrypted_ebs_volumes
Listed(found) == {c.volume_id : c \in Range(found)}

(* C18: for every region, neither get_unencrypted_ebs_volumes nor           *)
(* gather_unencrypted_info returns a volume whose encrypted flag is true,   *)
(* whatever its tags and whether or not it has a KMS key id; the queue of   *)
(* the run is the result of its scanner.                                    *)
C18_ScannersSkipEncrypted ==
    /\ \A v \in Listed(get_unencrypted_ebs_volumes(volumes)) :
          ~volumes[v].encrypted
    /\ \A v \in Gathered(gather_unencrypted_info(volumes)) :
          ~volumes[v].encrypted
    /\ Scanned =>
          /\ engine = "ebs" => queue = get_unencrypted_ebs_volumes(volumes)
          /\ engine = "inst" => queue = gather_unencrypted_info(volumes)

C18_Witness ==
    /\ Scanned /\ queue # <<>>
    /\ \E v \in 1..Len(volumes) :
          volumes[v].encrypted /\ volumes[v].kms = "none"
    /\ \E v \in 1..Len(volumes) :
          volumes[v].encrypted /\ volumes[v].tags # {}

\* the volumes get_unencrypted_ebs_volumes is to find
Candidates(vols) ==
    {v \in Indices(vols) :
        ~vols[v].encrypted /\ vols[v].kms = "none" /\ vols[v].state = "in-use"}

(* C19: for every region, whatever the number of its volumes,               *)
(* get_unencrypted_ebs_volumes returns every volume that is unencrypted,    *)
(* has no KMS key id and is in state in-use, and no volume that is not in   *)
(* state in-use.                                                            *)
C19_ScannerFindsEveryCandidate ==
    (engine = "ebs" /\ Scanned) =>
       /\ queue = get_unencrypted_ebs_volumes(volumes)
       /\ Listed(queue) = Candidates(volumes)

-----------------------------------------------------------------------------
(* C20: in both entry points no mutating call is issued in a run unless the *)
(* operator has given an affirmative answer ('y' or 'yes') before it, and a *)
(* run whose answer was not affirmative ends with no call and no job.       *)
C20_ConfirmationBeforeMutation ==
    /\ (\E k \in 1..Len(calls) : calls[k].op \in MutatingOps) => confirmed
    /\ pc = "cancelled" => (~confirmed /\ calls = <<>> /\ jobs = <<>>)

-----------------------------------------------------------------------------
(* Name resolution on its own: instances and volumes with any tag set, and  *)
(* the entry points up to their scan, which resolves the names              *)

\* number of volumes in the region whose names are resolved
MaxNamed == 2

\* no tags at all, tags without a Name key, tags with a Name key
NameChoices ==
    { {},
      {<<"team", "core">>},
      {<<"Name", "web">>},
      {<<"Name", "data">>, <<"team", "core">>} }

NameInit ==
    /\ engine \in Engines
    /\ pc = "main"
    /\ confirmed = FALSE
    /\ \E itags \in [Instances -> NameChoices] :
          instances = [i \in Instances |-> [Plain EXCEPT !.tags = itags[i]]]
    /\ \E n \in 1..MaxNamed :
          \E place \in [1..n -> Instances], vtags \in [1..n -> NameChoices] :
             volumes = [k \in 1..n |->
                           RegionVolume(k, place[k], FALSE, "none", vtags[k])]
    /\ snapshots = <<>>
    /\ queue = <<>>
    /\ job = 0
    /\ jobs = <<>>
    /\ loc = NoLoc
    /\ calls = <<>>
    /\ faults = 0

NameSpec == NameInit /\ [][ScanNext]_vars

\* the names the scan of the running entry point resolved, with the tags
\* they were resolved from
Resolved ==
    IF engine = "ebs"
    THEN UNION {{ <<c.instance_name, instances[c.instance_id].tags>>,
                  <<c.volume_name, volumes[c.volume_id].tags>> } :
                c \in Range(queue)}
    ELSE UNION {{ <<c.instance_name, instances[c.instance_id].tags>> }
                \cup { <<c.volume_names[n], volumes[c.volumes[n]].tags>> :
                       n \in 1..Len(c.volumes) } :
                c \in Range(queue)}

Sentinels == {"Name Unknown", "Unknown Name"}

(* C21: for every instance and volume, with no tags, with tags without a    *)
(* Name key or with a Name tag, the name resolved by get_instance_name and  *)
(* get_volume_name of either script is the value of the Name tag, or a      *)
(* sentinel string when there is no Name tag, and never None.               *)
C21_NameNeverNone ==
    Scanned =>
       \A r \in Resolved :
          /\ r[1] # None
          /\ IF HasName(r[2]) THEN r[1] = NameTag(r[2]) ELSE r[1] \in Sentinels

-----------------------------------------------------------------------------
\* the calls of a job in the order of the stages of the design:
\* ELIGIBILITY_CHECK, STOP_INSTANCE, SNAPSHOT_SOURCE, WAIT_SNAPSHOT,
\* COPY_ENCRYPTED (copy, then fast restore), WAIT_ENCRYPTED_SNAPSHOT,
\* DELETE_SOURCE_SNAPSHOT, DETACH_VOLUME, CREATE_ENCRYPTED_VOLUME,
\* WAIT_VOLUME_AVAILABLE, COPY_TAGS, ATTACH_VOLUME, DISABLE_FAST_RESTORE,
\* START_INSTANCE
StageOrder ==
    <<"asg_query", "eligibility", "stop", "wait_stopped", "snapshot",
      "wait_snapshot", "copy", "enable_fsr", "wait_encrypted", "delete",
      "detach", "wait_detached", "create_volume", "wait_volume", "read_tags",
      "tag", "attach", "wait_attached", "disable_fsr", "start",
      "wait_running">>

StageRank(op) == CHOOSE r \in 1..Len(StageOrder) : StageOrder[r] = op

\* call k + 1 follows call k in the order of the stages; a job for several
\* volumes begins again at the snapshot once a volume is attached
InOrder(k) ==
    \/ StageRank(calls[k].op) < StageRank(calls[k + 1].op)
    \/ calls[k].op = "wait_attached" /\ calls[k + 1].op = "snapshot"

(* C22: in both engines the calls of a job follow the strict order of the   *)
(* stages; in particular fast restore is requested right after the accepted *)
(* copy request and before the wait for the encrypted snapshot, and fast    *)
(* restore is disabled after the tag copy and the attach and before the     *)
(* start of the instance.                                                   *)
C22_StagesInSpecOrder ==
    /\ \A k \in 1..(Len(calls) - 1) :
          calls[k].job = calls[k + 1].job => InOrder(k)
    /\ \A k \in 1..Len(calls) :
          (calls[k].op = "copy" /\ calls[k].ok) =>
             /\ k < Len(calls)
             /\ calls[k + 1].op = "enable_fsr"
             /\ calls[k + 1].snap = calls[k].snap

-----------------------------------------------------------------------------
\* before call k, the same job has waited with success (wait w) for
\* snapshot s to complete
SnapshotAwaited(k, w, s) ==
    \E m \in 1..(k - 1) :
       /\ calls[m].job = calls[k].job
       /\ calls[m].op = w /\ calls[m].ok /\ calls[m].snap = s

\* before call k, the same job has waited with success (wait w) for volume v
VolumeAwaited(k, w, v) ==
    \E m \in 1..(k - 1) :
       /\ calls[m].job = calls[k].job
       /\ calls[m].op = w /\ calls[m].ok /\ calls[m].vol = v

\* the snapshot a copy call reads: an accepted call is logged with the copy
CopySource(k) ==
    IF calls[k].ok THEN snapshots[calls[k].snap].src ELSE calls[k].snap

\* the encrypted copy of snapshot s
CopyOf(s) == CHOOSE e \in 1..Len(snapshots) : snapshots[e].src = s

(* C23: in both engines no stage acts on a resource that has not reached    *)
(* its stable state.  The copy is requested only after the wait for the     *)
(* source snapshot returned 'completed'; the source snapshot is deleted and *)
(* the encrypted volume created only after the wait for the encrypted       *)
(* snapshot returned; the encrypted volume is created only after the source *)
(* volume reached 'available'; tags are written and the attach issued only  *)
(* after the new volume is 'available'; the instance is started only after  *)
(* every new volume of the job is 'in-use'.                                 *)
C23_ActsOnStableResources ==
    /\ \A k \in 1..Len(calls) :
          /\ calls[k].op = "copy" =>
                /\ SnapshotAwaited(k, "wait_snapshot", CopySource(k))
                /\ snapshots[CopySource(k)].state \in {"completed", "deleted"}
          /\ calls[k].op = "delete" =>
                SnapshotAwaited(k, "wait_encrypted", CopyOf(calls[k].snap))
          /\ calls[k].op = "create_volume" =>
                /\ SnapshotAwaited(k, "wait_encrypted", calls[k].snap)
                /\ snapshots[calls[k].snap].state = "completed"
                /\ VolumeAwaited(k, "wait_detached",
                                 snapshots[snapshots[calls[k].snap].src].vol)
          /\ calls[k].op \in {"tag", "attach"} =>
                VolumeAwaited(k, "wait_volume", calls[k].vol)
          /\ calls[k].op = "start" =>
                \A m \in 1..(k - 1) :
                   (/\ calls[m].job = calls[k].job
                    /\ calls[m].op = "create_volume" /\ calls[m].ok) =>
                      VolumeAwaited(k, "wait_attached", calls[m].vol)
    /\ pc \in {"copy_snapshot_with_encryption", "ev_copy"} =>
          snapshots[loc.snapshot_id].state = "completed"
    /\ pc \in {"delete_snapshot", "create_encrypted_volume", "ev_create_volume"} =>
          snapshots[loc.encrypted_snapshot_id].state = "completed"
    /\ pc \in {"create_encrypted_volume", "ev_create_volume"} =>
          volumes[loc.volume_id].state = "available"
    /\ pc \in {"copy_tags", "ev_tags", "attach_volume", "ev_attach"} =>
          volumes[loc.encrypted_volume_id].state = "available"
    /\ pc \in {"start_instance", "ev_start"} =>
          \A n \in 1..Len(volumes) :
             (volumes[n].snap # 0 /\ snapshots[volumes[n].snap].job = job) =>
                volumes[n].state = "in-use"

C23_Witness ==
    /\ engine = "inst" /\ Ended /\ Cur.outcome = "DONE"
    /\ Cardinality({k \in JobCalls(job) :
                       calls[k].op = "wait_attached" /\ calls[k].ok}) = 2
    /\ \E k \in JobCalls(job) : calls[k].op = "tag" /\ calls[k].ok
    /\ \E k \in JobCalls(job) : calls[k].op = "start" /\ calls[k].ok

-----------------------------------------------------------------------------
\* the encrypted volumes job j created that are not attached
Unattached(j) ==
    {n \in 1..Len(volumes) :
        /\ volumes[n].snap # 0
        /\ snapshots[volumes[n].snap].job = j
        /\ volumes[n].state # "in-use"}

\* the calls of job j with operation op that the provider accepted
Issued(j, op) == {k \in JobCalls(j) : calls[k].op = op /\ calls[k].ok}

(* C24: in every state of a batch run by main and encrypt_volumes of        *)
(* encrypt_instances_volumes.py: at most one job is under way, and it is    *)
(* the latest; every job has at most one encrypted volume it created and    *)
(* has not attached; the instance is stopped at most once and started at    *)
(* most once per job; and every call of a job is issued after the job       *)
(* before it reached DONE, SKIPPED or FAILED and after all of its calls.    *)
C24_OneJobInFlight ==
    engine = "inst" =>
       /\ \A j \in 1..Len(jobs) : jobs[j].outcome = "RUNNING" => j = Len(jobs)
       /\ Len(jobs) = job
       /\ \A j \in 1..Len(jobs) :
             /\ Cardinality(Unattached(j)) <= 1
             /\ Cardinality(Issued(j, "stop")) <= 1
             /\ Cardinality(Issued(j, "start")) <= 1
       /\ \A k \in 1..Len(calls) :
             /\ calls[k].job \in 1..Len(jobs)
             /\ \A m \in 1..(k - 1) : calls[m].job <= calls[k].job
             /\ \A j \in 1..(calls[k].job - 1) :
                   jobs[j].outcome \in {"DONE", "SKIPPED", "FAILED"}

C24_Witness ==
    /\ engine = "inst" /\ pc = "ev_attach"
    /\ Cardinality(Unattached(job)) = 1
    /\ Cardinality(Issued(job, "attach")) = 1
    /\ Cardinality(Issued(job, "stop")) = 1

-----------------------------------------------------------------------------
(* Runs in which every provider call and every wait returns, with success   *)
(* or with a provider error: a step that can be taken is taken              *)
LiveSpec == Init /\ [][Next]_vars /\ WF_vars(Next)

\* the run has ended: the batch is through, an exception ended it, or the
\* operator declined
Terminated == pc \in {"finished", "crashed", "cancelled"}

\* the calls that start a mutating stage, with the wait that ends it
WaitOf ==
    [stop |-> "wait_stopped", snapshot |-> "wait_snapshot",
     copy |-> "wait_encrypted", detach |-> "wait_detached",
     create_volume |-> "wait_volume", attach |-> "wait_attached",
     start |-> "wait_running"]

\* the accepted call k is seen through: the next call in the log is the wait
\* of its stage (for the copy, the fast-restore request of the same stage
\* may come first) and belongs to the same job
SeenThrough(k) ==
    /\ k < Len(calls)
    /\ calls[k + 1].job = calls[k].job
    /\ \/ calls[k + 1].op = WaitOf[calls[k].op]
       \/ /\ calls[k].op = "copy"
          /\ calls[k + 1].op = "enable_fsr"
          /\ calls[k + 1].ok =>
                (k + 1 < Len(calls) /\ calls[k + 2].op = "wait_encrypted")

\* every job taken up belongs to one scanned candidate, in scan order
TakenUpOnce ==
    /\ Len(jobs) = job /\ job <= Len(queue)
    /\ \A j \in 1..Len(jobs) : jobs[j].inst = queue[j].instance_id
    /\ engine = "ebs" =>
          /\ \A j \in 1..Len(jobs) : jobs[j].vol = queue[j].volume_id
          /\ \A a, b \in 1..Len(queue) :
                queue[a].volume_id = queue[b].volume_id => a = b
    /\ engine = "inst" =>
          \A a, b \in 1..Len(queue) :
             queue[a].instance_id = queue[b].instance_id => a = b

(* C25: when every provider call and wait returns, the run terminates with  *)
(* every job it took up decided as DONE, SKIPPED or FAILED and each scanned *)
(* candidate taken up at most once; and at all times an accepted call of a  *)
(* mutating stage is followed in the log by the wait of that stage before   *)
(* any other call of the job, and only the job under way is undecided.      *)
C25_EveryJobDecides ==
    /\ <>(/\ Terminated
          /\ \A j \in 1..Len(jobs) :
                jobs[j].outcome \in {"DONE", "SKIPPED", "FAILED"})
    /\ [](/\ TakenUpOnce
          /\ \A k \in 1..Len(calls) :
                (calls[k].op \in DOMAIN WaitOf /\ calls[k].ok) => SeenThrough(k)
          /\ \A j \in 1..Len(jobs) :
                jobs[j].outcome = "RUNNING" =>
                   (j = job /\ pc \notin {"next_job", "finished", "crashed"}))

C25_Witness ==
    /\ engine = "ebs" /\ pc = "finished" /\ job = 2
    /\ jobs[1].outcome = "SKIPPED" /\ jobs[2].outcome = "DONE"

-----------------------------------------------------------------------------
\* the volumes of the region at the start of the run
Originals == 1..MaxVols

(* C26: neither engine deletes or alters a source volume.  In every state   *)
(* each volume of the region still exists with the encrypted flag, key,     *)
(* zone and tags it had when any job began, attached or 'available'; after  *)
(* DONE the source volumes of the job are detached and 'available'; and     *)
(* every delete call targets an unencrypted snapshot that the same job      *)
(* created from a source volume, never a volume or an encrypted snapshot.   *)
C26_SourceVolumeKept ==
    /\ Len(volumes) >= MaxVols
    /\ \A v \in Originals : volumes[v].state \in {"in-use", "detaching", "available"}
    /\ \A j \in 1..Len(jobs) : \A v \in Originals :
          /\ volumes[v].encrypted = jobs[j].start.volumes[v].encrypted
          /\ volumes[v].kms = jobs[j].start.volumes[v].kms
          /\ volumes[v].tags = jobs[j].start.volumes[v].tags
          /\ volumes[v].az = jobs[j].start.volumes[v].az
          /\ volumes[v].snap = 0
    /\ (Ended /\ Cur.outcome = "DONE") =>
          \A v \in Sources(job) :
             /\ ~volumes[v].encrypted
             /\ volumes[v].state = "available"
             /\ volumes[v].inst = "none"
    /\ \A k \in 1..Len(calls) :
          calls[k].op = "delete" =>
             /\ calls[k].vol = 0
             /\ calls[k].snap \in 1..Len(snapshots)
             /\ snapshots[calls[k].snap].job = calls[k].job
             /\ ~snapshots[calls[k].snap].encrypted
             /\ snapshots[calls[k].snap].vol \in Originals
    /\ \A s \in 1..Len(snapshots) :
          snapshots[s].state = "deleted" =>
             /\ ~snapshots[s].encrypted
             /\ \E k \in 1..Len(calls) :
                   calls[k].op = "delete" /\ calls[k].ok /\ calls[k].snap = s

C26_Witness ==
    /\ Ended /\ Cur.outcome = "DONE"
    /\ \E v \in Sources(job) :
          /\ volumes[v].tags # {}
          /\ volumes[v].state = "available"
    /\ \E k \in JobCalls(job) : calls[k].op = "delete" /\ calls[k].ok

-----------------------------------------------------------------------------
\* the calls that need the instance at rest
OfflineOps == {"snapshot", "detach", "attach"}

(* C27: in both engines a snapshot, detach or attach call is issued only    *)
(* while the instance of the job is in state 'stopped': the job's wait for  *)
(* the stop has returned with success or the instance was stopped when the  *)
(* job began, and the job has issued no start call before it.               *)
C27_OfflineWhileStopped ==
    /\ pc \in {"create_snapshot", "detach_volume", "attach_volume",
               "ev_snapshot", "ev_detach", "ev_attach"} =>
          instances[loc.instance_id].state = "stopped"
    /\ \A k \in 1..Len(calls) :
          calls[k].op \in OfflineOps =>
             /\ \/ \E m \in 1..(k - 1) :
                      /\ calls[m].job = calls[k].job
                      /\ calls[m].op = "wait_stopped" /\ calls[m].ok
                \/ StoppedBefore(calls[k].job)
             /\ \A m \in 1..(k - 1) :
                   calls[m].job = calls[k].job => calls[m].op # "start"
    /\ \A j \in 1..Len(jobs) :
          (jobs[j].outcome \in {"RUNNING", "FAILED"} /\ Issued(j, "start") = {}
           /\ \E k \in JobCalls(j) : calls[k].op \in OfflineOps) =>
             instances[jobs[j].inst].state = "stopped"

C27_Witness ==
    /\ engine = "ebs" /\ pc = "attach_volume" /\ job = 2
    /\ jobs[1].outcome = "DONE" /\ jobs[1].inst = jobs[2].inst
    /\ instances[loc.instance_id].state = "stopped"
    /\ ~StoppedBefore(job)

-----------------------------------------------------------------------------
\* the volumes attached to instance i in cloud c
AttachedTo(c, i) ==
    {v \in 1..Len(c.volumes) :
        c.volumes[v].inst = i /\ c.volumes[v].state = "in-use"}

\* the encrypted volumes made from source volume v
Replacements(v) == {n \in 1..Len(volumes) : Replaces(n, v)}

(* C28: when encrypt_volumes of encrypt_instances_volumes.py reaches DONE   *)
(* for an instance, every volume that was attached to it and unencrypted at *)
(* job start is replaced by exactly one encrypted volume attached at the    *)
(* same device path, the instance has as many volumes attached as before,   *)
(* none of them unencrypted, and the volumes that were already encrypted    *)
(* have received no snapshot, detach, tag or attach call.                   *)
C28_InstanceFullyMigrated ==
    (engine = "inst" /\ Ended /\ Cur.outcome = "DONE") =>
       /\ \A v \in Sources(job) :
             /\ Cardinality(Replacements(v)) = 1
             /\ \A n \in Replacements(v) :
                   /\ volumes[n].encrypted
                   /\ volumes[n].state = "in-use"
                   /\ volumes[n].inst = Cur.inst
                   /\ volumes[n].device = Cur.start.volumes[v].device
       /\ Cardinality(AttachedTo(Cloud, Cur.inst)) =
             Cardinality(AttachedTo(Cur.start, Cur.inst))
       /\ \A v \in AttachedTo(Cloud, Cur.inst) : volumes[v].encrypted
       /\ \A v \in AttachedTo(Cur.start, Cur.inst) :
             Cur.start.volumes[v].encrypted =>
                /\ v \in AttachedTo(Cloud, Cur.inst)
                /\ volumes[v] = Cur.start.volumes[v]
                /\ \A k \in 1..Len(calls) : calls[k].vol # v
                /\ \A s \in 1..Len(snapshots) : snapshots[s].vol # v

C28_Witness ==
    /\ engine = "inst" /\ Ended /\ Cur.outcome = "DONE"
    /\ \E v \in AttachedTo(Cur.start, Cur.inst) : Cur.start.volumes[v].encrypted
    /\ \E v \in Sources(job) : Cur.start.volumes[v].tags # {}

====
